---- MODULE Spec2Model ----
(***************************************************************************)
(* Pod cache of galley/pkg/config/processor/transforms/serviceentry/pod:   *)
(* a map of pod Info keyed by IP and a node-name -> locality index, fed by *)
(* node and pod events, with a listener notified of every change.          *)
(* ClusterBuilder of pilot/pkg/networking/core/v1alpha3: the clusters of a *)
(* service port, its default cluster and one cluster per subset of its     *)
(* destination rule.                                                       *)
(* Discovery session of pilot/pkg/proxy/envoy/v2: the pushes, nonces and   *)
(* acknowledgments of one (connection, resource type).                     *)
(***************************************************************************)
EXTENDS Naturals, Integers, Sequences, FiniteSets, TLC

\* ------------------------------------------------------------------ bounds
\* The number of distinct pod IPs events may carry.
NumIPs == 2
\* The number of additions to the no-endpoint metric compiles may make to one
\* PushContext.
MaxMetrics == 2
\* The number of configuration versions the server goes through.
MaxVersion == 3
\* The number of pushes, each with its nonce, the server sends.
MaxPushes == 3

\* ------------------------------------------------------------ input domains
IPs == {"10.0.0." \o ToString(i) : i \in 1..NumIPs}
PodNames == {"ns1/pod-a", "ns1/pod-b"}
NodeNames == {"n1", "n2"}

\* k8s well known labels
LabelZoneRegion == "failure-domain.beta.kubernetes.io/region"
LabelZoneFailureDomain == "failure-domain.beta.kubernetes.io/zone"

\* A Go map[string]string is a set of <<key, value>> pairs with unique keys.
NodeLabelSets ==
    { {},
      {<<LabelZoneRegion, "us-east">>, <<LabelZoneFailureDomain, "1a">>},
      {<<LabelZoneRegion, "us-east">>} }
PodLabelSets == { {}, {<<"version", "v1">>} }
PodPhases == {"Pending", "Running", "Succeeded"}

\* labels[key] of a Go map: the zero value "" when the key is missing.
LabelValue(labels, key) ==
    IF \E p \in labels : p[1] = key
    THEN (CHOOSE p \in labels : p[1] = key)[2]
    ELSE ""

\* m[key] of a Go map[string]string held as a function with a finite domain.
MapGet(m, key) == IF key \in DOMAIN m THEN m[key] ELSE ""
MapPut(m, key, val) == [k \in (DOMAIN m) \cup {key} |-> IF k = key THEN val ELSE m[k]]
MapDelete(m, key) == [k \in (DOMAIN m) \ {key} |-> m[k]]
EmptyMap == [k \in {} |-> ""]

\* -------------------------------------------------------------------- events
\* event.Event reduced to what the cache reads: Source, Kind, Entry.Metadata
\* (Name, Labels) and Entry.Item.  HasPod is the outcome of Item.(*coreV1.Pod).
NodeEvents ==
    [Source : {"Nodes"}, Kind : {"Added", "Updated"}, Name : NodeNames, Labels : NodeLabelSets]
    \cup [Source : {"Nodes"}, Kind : {"Deleted"}, Name : NodeNames, Labels : {{}}]

PodItems ==
    [PodIP : IPs \cup {""}, Phase : PodPhases, NodeName : NodeNames, Labels : PodLabelSets,
     ServiceAccountName : {"default"}, Namespace : {"ns1"}]
NoItem ==
    [PodIP |-> "", Phase |-> "", NodeName |-> "", Labels |-> {},
     ServiceAccountName |-> "", Namespace |-> ""]

\* handlePod reads nothing but PodIP of the pod a Deleted event carries.
DeletedPodItems ==
    {p \in PodItems : p.Phase = "Running" /\ p.Labels = {} /\ p.NodeName = "n1"}

\* Added and Updated events always carry the pod; a Deleted event may carry the
\* last known pod or nothing (the resource was not available upstream).
PodEvents ==
    [Source : {"Pods"}, Kind : {"Added", "Updated"}, Name : PodNames,
     HasPod : {TRUE}, Item : PodItems]
    \cup [Source : {"Pods"}, Kind : {"Deleted"}, Name : PodNames,
          HasPod : {TRUE}, Item : DeletedPodItems]
    \cup [Source : {"Pods"}, Kind : {"Deleted"}, Name : PodNames, HasPod : {FALSE}, Item : {NoItem}]

OtherEvents == {[Source |-> "Services", Kind |-> "Added", Name |-> "ns1/svc"]}

\* ------------------------------------------------------------ pure functions
getLocality(region, zone) ==
    IF region = "" /\ zone = "" THEN "" ELSE region \o "/" \o zone

\* spiffe.MustGenSpiffeURI(ns, saname): the SPIFFE URI of the account, here
\* under the default trust domain.
kubeToIstioServiceAccount(saname, ns) ==
    "spiffe://cluster.local/ns/" \o ns \o "/sa/" \o saname

\* The orders in which a Go range over a map may visit the keys in S.
Orders(S) ==
    {f \in [1..Cardinality(S) -> S] : \A i, j \in 1..Cardinality(S) : f[i] = f[j] => i = j}

\* A listener callback invocation.
Note(kind, info) == [kind |-> kind, info |-> info]

\* ------------------------------------------------------ cache operations
\* Each operation maps the cache c = [pods, nodeNameToLocality] to its outcome:
\* the new maps, the listener calls made, in the order they are made, and
\* whether the goroutine panicked.
Outcome(pods_, nodes_, notes_) ==
    [pods |-> pods_, nodeNameToLocality |-> nodes_, notes |-> notes_, panic |-> FALSE]

Unchanged(c) == Outcome(c.pods, c.nodeNameToLocality, <<>>)

Panic(c) == [Unchanged(c) EXCEPT !.panic = TRUE]

updatePod_NoEqualCheck(c, pod) ==
    Outcome(MapPut(c.pods, pod.IP, pod), c.nodeNameToLocality,
            IF pod.IP \in DOMAIN c.pods
            THEN <<Note("PodUpdated", pod)>> ELSE <<Note("PodAdded", pod)>>)

updatePod_AlwaysAdded(c, pod) ==
    IF pod.IP \in DOMAIN c.pods /\ c.pods[pod.IP] = pod
    THEN Unchanged(c)
    ELSE Outcome(MapPut(c.pods, pod.IP, pod), c.nodeNameToLocality, <<Note("PodAdded", pod)>>)

updatePod(c, pod) ==
    LET exists == pod.IP \in DOMAIN c.pods IN
    IF exists /\ c.pods[pod.IP] = pod
    THEN \* Nothing changed - just return.
         Unchanged(c)
    ELSE Outcome(MapPut(c.pods, pod.IP, pod), c.nodeNameToLocality,
                 IF exists THEN <<Note("PodUpdated", pod)>> ELSE <<Note("PodAdded", pod)>>)

deletePod_Silent(c, ip) ==
    IF ip \in DOMAIN c.pods
    THEN Outcome(MapDelete(c.pods, ip), c.nodeNameToLocality, <<>>)
    ELSE Unchanged(c)

deletePod(c, ip) ==
    IF ip \in DOMAIN c.pods
    THEN Outcome(MapDelete(c.pods, ip), c.nodeNameToLocality, <<Note("PodDeleted", c.pods[ip])>>)
    ELSE Unchanged(c)

updatePodLocality_NoStore(c, nodeName, locality) ==
    LET bound == {ip \in DOMAIN c.pods : c.pods[ip].NodeName = nodeName} IN
    {Outcome(c.pods, c.nodeNameToLocality,
             [i \in 1..Cardinality(bound) |->
                 Note("PodUpdated", [c.pods[order[i]] EXCEPT !.Locality = locality])])
       : order \in Orders(bound)}

updatePodLocality_AllPods(c, nodeName, locality) ==
    LET newPods == [ip \in DOMAIN c.pods |-> [c.pods[ip] EXCEPT !.Locality = locality]] IN
    {Outcome(newPods, c.nodeNameToLocality,
             [i \in 1..Cardinality(DOMAIN c.pods) |-> Note("PodUpdated", newPods[order[i]])])
       : order \in Orders(DOMAIN c.pods)}

\* The set of outcomes: the range over pc.pods visits the pods in any order,
\* and updatedPods is notified in the order visited.
updatePodLocality(c, nodeName, locality) ==
    LET bound == {ip \in DOMAIN c.pods : c.pods[ip].NodeName = nodeName}
        newPods == [ip \in DOMAIN c.pods |->
                       IF ip \in bound THEN [c.pods[ip] EXCEPT !.Locality = locality]
                       ELSE c.pods[ip]]
    IN  {Outcome(newPods, c.nodeNameToLocality,
                 [i \in 1..Cardinality(bound) |-> Note("PodUpdated", newPods[order[i]])])
           : order \in Orders(bound)}

\* The locality a node event carries in its labels.
nodeLocality(e) ==
    getLocality(LabelValue(e.Labels, LabelZoneRegion), LabelValue(e.Labels, LabelZoneFailureDomain))

handleNode_AlwaysPropagate(c, e) ==
    IF e.Kind \in {"Added", "Updated"}
    THEN updatePodLocality([c EXCEPT !.nodeNameToLocality = MapPut(@, e.Name, nodeLocality(e))],
                           e.Name, nodeLocality(e))
    ELSE updatePodLocality([c EXCEPT !.nodeNameToLocality = MapDelete(@, e.Name)], e.Name, "")

handleNode(c, e) ==
    LET nodeName == e.Name IN
    IF e.Kind \in {"Added", "Updated"}
    THEN LET newLocality == nodeLocality(e)
             oldLocality == MapGet(c.nodeNameToLocality, nodeName)
         IN  IF newLocality # oldLocality
             THEN updatePodLocality(
                      [c EXCEPT !.nodeNameToLocality = MapPut(@, nodeName, nodeLocality(e))],
                      nodeName, newLocality)
             ELSE {Unchanged(c)}
    ELSE \* event.Deleted
         IF nodeName \in DOMAIN c.nodeNameToLocality
         THEN updatePodLocality(
                  [c EXCEPT !.nodeNameToLocality = MapDelete(@, nodeName)], nodeName, "")
         ELSE {Unchanged(c)}

\* The Info handlePod builds for a pod event that carries an IP.
podInfo(c, e) ==
    LET pod == e.Item
        nodeName == pod.NodeName
        locality == MapGet(c.nodeNameToLocality, nodeName)
        serviceAccountName == kubeToIstioServiceAccount(pod.ServiceAccountName, pod.Namespace)
    IN  [IP |-> pod.PodIP,
         FullName |-> e.Name,
         NodeName |-> nodeName,
         Locality |-> locality,
         Labels |-> pod.Labels,
         ServiceAccountName |-> serviceAccountName]

bruteForceIPs_None(c, name) == {""}

\* The values ip may hold after the brute-force loop: "" when no stored record
\* has the name, else the IP of whichever matching record the range meets first.
bruteForceIPs(c, name) ==
    LET found == {podIP \in DOMAIN c.pods : c.pods[podIP].FullName = name} IN
    IF found = {} THEN {""} ELSE found

\* pod := e.Entry.Item.(*coreV1.Pod) panics when the item is no pod;
\* pod, ok := e.Entry.Item.(*coreV1.Pod) does not.
assertPod(e, commaOk) == [ok |-> e.HasPod, panic |-> ~commaOk /\ ~e.HasPod]

\* The values ip may hold on line 174; none when the assertion panicked.
deletedIPs(c, e) ==
    IF assertPod(e, TRUE).panic THEN {}
    ELSE IF assertPod(e, TRUE).ok THEN {e.Item.PodIP}
    ELSE bruteForceIPs(c, e.Name)

\* handlePod that stores the pod whatever its phase.
handlePod_AnyPhase(c, e) ==
    IF e.Kind \in {"Added", "Updated"}
    THEN IF assertPod(e, FALSE).panic THEN {Panic(c)}
         ELSE IF e.Item.PodIP = "" THEN {Unchanged(c)}
              ELSE {updatePod(c, podInfo(c, e))}
    ELSE IF deletedIPs(c, e) = {} THEN {Panic(c)}
         ELSE {deletePod(c, ip) : ip \in deletedIPs(c, e)}

handlePod(c, e) ==
    IF e.Kind \in {"Added", "Updated"}
    THEN IF assertPod(e, FALSE).panic THEN {Panic(c)}
         ELSE LET ip == e.Item.PodIP IN
              IF ip = ""
              THEN \* PodIP is empty until the IP is assigned via UpdateStatus.
                   {Unchanged(c)}
              ELSE IF e.Item.Phase \in {"Pending", "Running"}
              THEN \* add to cache if the pod is running or pending
                   {updatePod(c, podInfo(c, e))}
              ELSE \* delete if the pod switched to other states and is in the cache
                   {deletePod(c, ip)}
    ELSE \* event.Deleted
         IF deletedIPs(c, e) = {} THEN {Panic(c)}
         ELSE {deletePod(c, ip) : ip \in deletedIPs(c, e)}

Handle(c, e) ==
    CASE e.Source = "Nodes" -> handleNode(c, e)
      [] e.Source = "Pods" -> handlePod(c, e)
      [] OTHER -> {Unchanged(c)}

\* ------------------------------------------------------------ ClusterBuilder
\* A nil pointer, a nil slice element, an unset message field.
Nil == [nil |-> TRUE]

\* apiv2.Cluster_DiscoveryType
DiscoveryTypes == {"STATIC", "STRICT_DNS", "LOGICAL_DNS", "EDS", "ORIGINAL_DST"}

\* ClusterMode
DefaultClusterMode == "DefaultClusterMode"
SniDnatClusterMode == "SniDnatClusterMode"
ClusterModes == {DefaultClusterMode, SniDnatClusterMode}

TrafficDirectionOutbound == "outbound"

\* cb.push.Mesh: the mesh-wide settings the builder reads.
Mesh == [ConnectTimeout |-> "10s", DnsRefreshRate |-> "5s", OutboundClusterStatName |-> ""]

\* The load balancer of a cluster no policy names.
DefaultLbType == "ROUND_ROBIN"

\* networking.TrafficPolicy: its load balancer and its connection pool.
Policy(lb, timeout) == [LoadBalancer |-> lb, ConnectTimeout |-> timeout]

\* The traffic policies destination rules and subsets carry.
RulePolicies == {Policy("LEAST_CONN", "30s"), Policy("PASSTHROUGH", "30s")}
SubsetPolicies == {Policy("RANDOM", "1s"), Policy("PASSTHROUGH", "1s")}

\* model.BuildSubsetKey: direction|port|subset|hostname.
BuildSubsetKey(direction, subsetName, hostname, port) ==
    direction \o "|" \o ToString(port) \o "|" \o subsetName \o "|" \o hostname

\* model.BuildDNSSrvSubsetKey: direction_.port_.subset_.hostname.
BuildDNSSrvSubsetKey(direction, subsetName, hostname, port) ==
    direction \o "_." \o ToString(port) \o "_." \o subsetName \o "_." \o hostname

\* The service and port the clusters are built for.
Services == {[Hostname |-> "svc", MeshExternal |-> FALSE]}
Ports == {[Port |-> 80]}

\* The instances of the service: address, labels, locality.
Instance(addr, labels) == [Address |-> addr, Labels |-> labels, Locality |-> "us-east/1a"]
InstanceLists ==
    { <<>>,
      <<Instance("10.1.0.1", {<<"version", "v1">>})>>,
      <<Instance("10.1.0.1", {<<"version", "v1">>}),
        Instance("10.1.0.2", {<<"version", "v2">>})>> }

\* networking.Subset
Subset(name, labels, policy) == [Name |-> name, Labels |-> labels, TrafficPolicy |-> policy]
SubsetLists ==
    LET v1 == Subset("v1", {<<"version", "v1">>}, Nil)
        v2 == Subset("v2", {<<"version", "v2">>}, Nil)
        all == Subset("all", {}, Nil)
    IN  { <<>>, <<v1>>, <<all>>, <<v1, v2>>, <<v2, v1>> }
          \cup { <<[v1 EXCEPT !.TrafficPolicy = p], v2>> : p \in SubsetPolicies }
          \cup { <<v2, [v1 EXCEPT !.TrafficPolicy = p]>> : p \in SubsetPolicies }

\* What cb.push.DestinationRule returns for the service: nil or a config whose
\* Spec is a networking.DestinationRule.
DestinationRules ==
    {Nil} \cup
    [ConfigMeta : {[Name |-> "dr"]},
     Spec : [TrafficPolicy : {Nil} \cup RulePolicies, Subsets : SubsetLists]]

\* The PushContext of the builder: what it looks up and the metric it adds to.
PushContext(metrics_, destRule, instances) ==
    [metrics |-> metrics_, DestinationRule |-> destRule, Instances |-> instances]

\* cb.push.AddMetric(DNSNoEndpointClusters, key, ...): one more for the key.
MetricCount(m, key) == IF key \in DOMAIN m THEN m[key] ELSE 0
AddMetric(push, key) ==
    [push EXCEPT !.metrics =
        [k \in (DOMAIN @) \cup {key} |-> IF k = key THEN MetricCount(@, key) + 1 ELSE @[k]]]

\* labels.Instance.SubsetOf over the pairs of a map[string]string.
SubsetOf(labels, other) == labels \subseteq other

\* buildLocalityLbEndpoints: the instances of the service that carry the
\* labels of one of labelsList, all of them when labelsList is empty.
buildLocalityLbEndpoints(push, labelsList) ==
    LET Matches(i) ==
            \/ labelsList = <<>>
            \/ \E k \in 1..Len(labelsList) : SubsetOf(labelsList[k], i.Labels)
    IN  SelectSeq(push.Instances, Matches)

\* &apiv2.Cluster{Name: name, ClusterDiscoveryType: &apiv2.Cluster_Type{Type: t}}
\* with every other field at its zero value.
NewCluster(name, discoveryType) ==
    [Name |-> name,
     ClusterDiscoveryType |-> [kind |-> "Type", Type |-> discoveryType],
     DnsLookupFamily |-> "AUTO", DnsRefreshRate |-> "", RespectDnsTtl |-> FALSE,
     LoadAssignment |-> Nil, EdsClusterConfig |-> Nil, Metadata |-> Nil,
     ConnectTimeout |-> "", LbPolicy |-> "ROUND_ROBIN", TrafficPolicy |-> Nil,
     UpstreamBindConfig |-> Nil]

\* cluster.GetType(): the type of a Cluster_Type, else the zero type.
GetType(cluster) ==
    IF cluster.ClusterDiscoveryType.kind = "Type"
    THEN cluster.ClusterDiscoveryType.Type ELSE "STATIC"

\* applyTrafficPolicy(opts): the policy of opts, when there is one, becomes the
\* policy of the cluster as a whole; a PASSTHROUGH load balancer makes the
\* cluster an ORIGINAL_DST one (the policy might change the discovery type).
applyTrafficPolicy(cluster, policy) ==
    IF policy = Nil THEN cluster
    ELSE [cluster EXCEPT
            !.TrafficPolicy = policy,
            !.ConnectTimeout = policy.ConnectTimeout,
            !.LbPolicy = IF policy.LoadBalancer = "PASSTHROUGH" THEN "CLUSTER_PROVIDED"
                         ELSE policy.LoadBalancer,
            !.ClusterDiscoveryType =
                IF policy.LoadBalancer = "PASSTHROUGH"
                THEN [kind |-> "Type", Type |-> "ORIGINAL_DST"] ELSE @]

defaultTrafficPolicy(discoveryType) ==
    Policy(IF discoveryType = "ORIGINAL_DST" THEN "PASSTHROUGH" ELSE DefaultLbType,
           Mesh.ConnectTimeout)

castDestinationRuleOrDefault(config) ==
    IF config # Nil THEN config.Spec ELSE [TrafficPolicy |-> Nil, Subsets |-> <<>>]

\* maybeApplyEdsConfig that leaves the EDS service name unset.
maybeApplyEdsConfig_NoServiceName(cluster) ==
    IF cluster.ClusterDiscoveryType.kind = "Type" /\ cluster.ClusterDiscoveryType.Type # "EDS"
    THEN cluster
    ELSE [cluster EXCEPT !.EdsClusterConfig = [ServiceName |-> "", EdsConfig |-> "Ads"]]

maybeApplyEdsConfig(cluster) ==
    IF cluster.ClusterDiscoveryType.kind = "Type" /\ cluster.ClusterDiscoveryType.Type # "EDS"
    THEN cluster
    ELSE [cluster EXCEPT !.EdsClusterConfig =
            [ServiceName |-> cluster.Name, EdsConfig |-> "Ads"]]

\* What a building operation returns: the cluster (or Nil) and the push
\* context after it.
Built(cluster, push) == [cluster |-> cluster, push |-> push]

\* buildDefaultCluster that also rejects a cluster it has rejected before.
buildDefaultCluster_RejectKnown(push, name, discoveryType, localityLbEndpoints, direction, port, meshExternal) ==
    LET cluster == NewCluster(name, discoveryType)
        dns == [cluster EXCEPT !.DnsLookupFamily = "V4_ONLY",
                               !.DnsRefreshRate = Mesh.DnsRefreshRate,
                               !.RespectDnsTtl = TRUE]
        c1 == IF discoveryType = "STRICT_DNS" THEN dns ELSE cluster
    IN  IF discoveryType \in {"STRICT_DNS", "STATIC"}
        THEN IF Len(localityLbEndpoints) = 0
             THEN Built(Nil, AddMetric(push, name))
             ELSE IF MetricCount(push.metrics, name) > 0
             THEN Built(Nil, push)
             ELSE Built(applyTrafficPolicy(
                            [c1 EXCEPT !.LoadAssignment =
                                [ClusterName |-> name, Endpoints |-> localityLbEndpoints]],
                            defaultTrafficPolicy(discoveryType)),
                        push)
        ELSE Built(applyTrafficPolicy(c1, defaultTrafficPolicy(discoveryType)), push)

\* buildDefaultCluster without the fallthrough of the STRICT_DNS case.
buildDefaultCluster_NoFallthrough(push, name, discoveryType, localityLbEndpoints, direction, port, meshExternal) ==
    LET cluster == NewCluster(name, discoveryType)
        dns == [cluster EXCEPT !.DnsLookupFamily = "V4_ONLY",
                               !.DnsRefreshRate = Mesh.DnsRefreshRate,
                               !.RespectDnsTtl = TRUE]
    IN  IF discoveryType = "STATIC"
        THEN IF Len(localityLbEndpoints) = 0
             THEN Built(Nil, AddMetric(push, name))
             ELSE Built(applyTrafficPolicy(
                            [cluster EXCEPT !.LoadAssignment =
                                [ClusterName |-> name, Endpoints |-> localityLbEndpoints]],
                            defaultTrafficPolicy(discoveryType)),
                        push)
        ELSE Built(applyTrafficPolicy(IF discoveryType = "STRICT_DNS" THEN dns ELSE cluster,
                                      defaultTrafficPolicy(discoveryType)), push)

buildDefaultCluster(push, name, discoveryType, localityLbEndpoints, direction, port, meshExternal) ==
    LET cluster == NewCluster(name, discoveryType)
        dns == [cluster EXCEPT !.DnsLookupFamily = "V4_ONLY",
                               !.DnsRefreshRate = Mesh.DnsRefreshRate,
                               !.RespectDnsTtl = TRUE]
        c1 == IF discoveryType = "STRICT_DNS" THEN dns ELSE cluster
    IN  IF discoveryType \in {"STRICT_DNS", "STATIC"}
        THEN IF Len(localityLbEndpoints) = 0
             THEN Built(Nil, AddMetric(push, name))
             ELSE Built(applyTrafficPolicy(
                            [c1 EXCEPT !.LoadAssignment =
                                [ClusterName |-> name, Endpoints |-> localityLbEndpoints]],
                            defaultTrafficPolicy(discoveryType)),
                        push)
        ELSE Built(applyTrafficPolicy(c1, defaultTrafficPolicy(discoveryType)), push)

\* The name of the cluster of a subset ("" for the default cluster).
subsetClusterName(clusterMode, subsetName, service, port) ==
    IF clusterMode = DefaultClusterMode
    THEN BuildSubsetKey(TrafficDirectionOutbound, subsetName, service.Hostname, port.Port)
    ELSE BuildDNSSrvSubsetKey(TrafficDirectionOutbound, subsetName, service.Hostname, port.Port)

\* buildClusterOpts as far as the loop over the subsets writes it: the cluster
\* opts.cluster points to, the default cluster ("cluster") or the cluster of
\* the subset at hand ("subsetCluster"), and opts.policy.
Opts(target, policy) == [cluster |-> target, policy |-> policy]

\* The two clusters opts.cluster may point to.
Heap(cluster, subsetCluster) == [cluster |-> cluster, subsetCluster |-> subsetCluster]

\* applyTrafficPolicy(opts): the policy of opts applied to the cluster opts
\* points to.
applyTrafficPolicyTo(heap, opts) ==
    [heap EXCEPT ![opts.cluster] = applyTrafficPolicy(@, opts.policy)]

\* What one iteration of the loop leaves: the cluster of the subset (Nil when
\* there is none), the default cluster, opts, and the push context.
Iterated(subsetCluster, cluster, opts, push) ==
    [cluster |-> subsetCluster, default |-> cluster, opts |-> opts, push |-> push]

\* The subset policy applied before the policy of the rule, not after.
subsetCluster_RuleLast(push, cluster, clusterMode, service, port, destinationRule, clusterMetadata, subset, opts) ==
    LET name == subsetClusterName(clusterMode, subset.Name, service, port)
        lbEndpoints ==
            IF GetType(cluster) # "EDS" /\ subset.Labels # {}
            THEN buildLocalityLbEndpoints(push, <<subset.Labels>>)
            ELSE <<>>
        b == buildDefaultCluster(push, name, GetType(cluster), lbEndpoints,
                                 TrafficDirectionOutbound, Nil, service.MeshExternal)
        o1 == IF subset.TrafficPolicy # Nil
              THEN [opts EXCEPT !.cluster = "subsetCluster", !.policy = subset.TrafficPolicy]
              ELSE [opts EXCEPT !.cluster = "subsetCluster"]
        h1 == IF subset.TrafficPolicy # Nil
              THEN applyTrafficPolicyTo(Heap(cluster, b.cluster), o1)
              ELSE Heap(cluster, b.cluster)
        o2 == [o1 EXCEPT !.policy = destinationRule.TrafficPolicy]
        h2 == applyTrafficPolicyTo(h1, o2)
        c3 == maybeApplyEdsConfig(h2.subsetCluster)
    IN  IF b.cluster = Nil THEN Iterated(Nil, cluster, opts, b.push)
        ELSE Iterated([c3 EXCEPT !.Metadata = [config |-> clusterMetadata, subset |-> subset.Name]],
                      h2.cluster, o2, b.push)

\* The endpoints of the subset cluster not filtered by the labels of the subset.
subsetCluster_AllEndpoints(push, cluster, clusterMode, service, port, destinationRule, clusterMetadata, subset, opts) ==
    LET name == subsetClusterName(clusterMode, subset.Name, service, port)
        lbEndpoints ==
            IF GetType(cluster) # "EDS" /\ subset.Labels # {}
            THEN buildLocalityLbEndpoints(push, <<>>)
            ELSE <<>>
        b == buildDefaultCluster(push, name, GetType(cluster), lbEndpoints,
                                 TrafficDirectionOutbound, Nil, service.MeshExternal)
        o1 == [opts EXCEPT !.cluster = "subsetCluster", !.policy = destinationRule.TrafficPolicy]
        h1 == applyTrafficPolicyTo(Heap(cluster, b.cluster), o1)
        o2 == IF subset.TrafficPolicy # Nil THEN [o1 EXCEPT !.policy = subset.TrafficPolicy] ELSE o1
        h2 == IF subset.TrafficPolicy # Nil THEN applyTrafficPolicyTo(h1, o2) ELSE h1
        c3 == maybeApplyEdsConfig(h2.subsetCluster)
    IN  IF b.cluster = Nil THEN Iterated(Nil, cluster, opts, b.push)
        ELSE Iterated([c3 EXCEPT !.Metadata = [config |-> clusterMetadata, subset |-> subset.Name]],
                      h2.cluster, o2, b.push)

\* opts.policy not set back to the policy of the rule: the iteration starts
\* from the policy the one before left in opts.
subsetCluster_NoReset(push, cluster, clusterMode, service, port, destinationRule, clusterMetadata, subset, opts) ==
    LET name == subsetClusterName(clusterMode, subset.Name, service, port)
        lbEndpoints ==
            IF GetType(cluster) # "EDS" /\ subset.Labels # {}
            THEN buildLocalityLbEndpoints(push, <<subset.Labels>>)
            ELSE <<>>
        b == buildDefaultCluster(push, name, GetType(cluster), lbEndpoints,
                                 TrafficDirectionOutbound, Nil, service.MeshExternal)
        o1 == [opts EXCEPT !.cluster = "subsetCluster"]
        h1 == applyTrafficPolicyTo(Heap(cluster, b.cluster), o1)
        o2 == IF subset.TrafficPolicy # Nil THEN [o1 EXCEPT !.policy = subset.TrafficPolicy] ELSE o1
        h2 == IF subset.TrafficPolicy # Nil THEN applyTrafficPolicyTo(h1, o2) ELSE h1
        c3 == maybeApplyEdsConfig(h2.subsetCluster)
    IN  IF b.cluster = Nil THEN Iterated(Nil, cluster, opts, b.push)
        ELSE Iterated([c3 EXCEPT !.Metadata = [config |-> clusterMetadata, subset |-> subset.Name]],
                      h2.cluster, o2, b.push)

\* One iteration of the loop over destinationRule.Subsets: the cluster of the
\* subset, Nil when buildDefaultCluster returned none (continue).  opts is
\* pointed at the subset cluster and its policy set back to that of the rule,
\* then to that of the subset when it has one.
\* AltStatName and the upstream protocol of the subset cluster are fields
\* outside this model's cluster.
subsetCluster(push, cluster, clusterMode, service, port, destinationRule, clusterMetadata, subset, opts) ==
    LET name == subsetClusterName(clusterMode, subset.Name, service, port)
        lbEndpoints ==
            IF GetType(cluster) # "EDS" /\ subset.Labels # {}
            THEN buildLocalityLbEndpoints(push, <<subset.Labels>>)
            ELSE <<>>
        b == buildDefaultCluster(push, name, GetType(cluster), lbEndpoints,
                                 TrafficDirectionOutbound, Nil, service.MeshExternal)
        o1 == [opts EXCEPT !.cluster = "subsetCluster", !.policy = destinationRule.TrafficPolicy]
        h1 == applyTrafficPolicyTo(Heap(cluster, b.cluster), o1)
        o2 == IF subset.TrafficPolicy # Nil THEN [o1 EXCEPT !.policy = subset.TrafficPolicy] ELSE o1
        h2 == IF subset.TrafficPolicy # Nil THEN applyTrafficPolicyTo(h1, o2) ELSE h1
        c3 == maybeApplyEdsConfig(h2.subsetCluster)
    IN  IF b.cluster = Nil THEN Iterated(Nil, cluster, opts, b.push)
        ELSE Iterated([c3 EXCEPT !.Metadata = [config |-> clusterMetadata, subset |-> subset.Name]],
                      h2.cluster, o2, b.push)

\* The loop left at the first subset without a cluster.
RECURSIVE subsetClusters_StopAtRejected(_, _, _, _, _, _, _, _, _, _)
subsetClusters_StopAtRejected(push, cluster, clusterMode, service, port, destinationRule, clusterMetadata, opts, i, acc) ==
    IF i > Len(destinationRule.Subsets)
    THEN [subsetClusters |-> acc, cluster |-> cluster, push |-> push]
    ELSE LET b == subsetCluster(push, cluster, clusterMode, service, port, destinationRule,
                                clusterMetadata, destinationRule.Subsets[i], opts)
         IN  IF b.cluster = Nil
             THEN [subsetClusters |-> acc, cluster |-> b.default, push |-> b.push]
             ELSE subsetClusters_StopAtRejected(b.push, b.default, clusterMode, service, port,
                                                destinationRule, clusterMetadata, b.opts, i + 1,
                                                Append(acc, b.cluster))

\* The loop over destinationRule.Subsets, from subset i on.
RECURSIVE subsetClusters(_, _, _, _, _, _, _, _, _, _)
subsetClusters(push, cluster, clusterMode, service, port, destinationRule, clusterMetadata, opts, i, acc) ==
    IF i > Len(destinationRule.Subsets)
    THEN [subsetClusters |-> acc, cluster |-> cluster, push |-> push]
    ELSE LET b == subsetCluster(push, cluster, clusterMode, service, port, destinationRule,
                                clusterMetadata, destinationRule.Subsets[i], opts)
         IN  subsetClusters(b.push, b.default, clusterMode, service, port, destinationRule,
                            clusterMetadata, b.opts, i + 1,
                            IF b.cluster = Nil THEN acc ELSE Append(acc, b.cluster))

\* applyDestinationRule: cluster, updated in place, the subset clusters it
\* returns, and the push context after it.
applyDestinationRule(push, cluster, clusterMode, service, port) ==
    LET destRule == push.DestinationRule
        destinationRule == castDestinationRuleOrDefault(destRule)
        opts == Opts("cluster", destinationRule.TrafficPolicy)
        c1 == maybeApplyEdsConfig(applyTrafficPolicyTo(Heap(cluster, Nil), opts).cluster)
        clusterMetadata == IF destRule # Nil THEN [config |-> destRule.ConfigMeta.Name] ELSE Nil
        c2 == IF destRule # Nil THEN [c1 EXCEPT !.Metadata = clusterMetadata] ELSE c1
        r == subsetClusters(push, c2, clusterMode, service, port, destinationRule,
                            clusterMetadata, opts, 1, <<>>)
    IN  [cluster |-> r.cluster, subsetClusters |-> r.subsetClusters, push |-> r.push]

\* The compile of the clusters of a service port: the default cluster over
\* all the instances of the service, then its destination rule applied; no
\* cluster at all when the default cluster is not built.
compile(push, service, port, discoveryType, clusterMode) ==
    LET d == buildDefaultCluster(push, subsetClusterName(clusterMode, "", service, port),
                                 discoveryType, buildLocalityLbEndpoints(push, <<>>),
                                 TrafficDirectionOutbound, port, service.MeshExternal)
        r == applyDestinationRule(d.push, d.cluster, clusterMode, service, port)
    IN  IF d.cluster = Nil THEN [clusters |-> <<>>, push |-> d.push]
        ELSE [clusters |-> <<r.cluster>> \o r.subsetClusters, push |-> r.push]

\* The reserved names of the clusters no service stands behind, and the
\* addresses the inbound passthrough clusters bind to.
BlackHoleCluster == "BlackHoleCluster"
PassthroughCluster == "PassthroughCluster"
InboundPassthroughClusterIpv4 == "InboundPassthroughClusterIpv4"
InboundPassthroughClusterIpv6 == "InboundPassthroughClusterIpv6"
InboundPassthroughBindIpv4 == "127.0.0.6"
InboundPassthroughBindIpv6 == "::6"

\* buildBlackHoleCluster: a STATIC cluster under the reserved name, with the
\* connect timeout of the mesh and nothing else set.
buildBlackHoleCluster(push) ==
    [NewCluster(BlackHoleCluster, "STATIC") EXCEPT
        !.ConnectTimeout = Mesh.ConnectTimeout, !.LbPolicy = "ROUND_ROBIN"]

\* buildDefaultPassthroughCluster: an ORIGINAL_DST cluster under the reserved
\* name.  The circuit breakers applyConnectionPool sets are fields outside this
\* model's cluster.
buildDefaultPassthroughCluster(push) ==
    [NewCluster(PassthroughCluster, "ORIGINAL_DST") EXCEPT
        !.ConnectTimeout = Mesh.ConnectTimeout, !.LbPolicy = "CLUSTER_PROVIDED"]

\* buildInboundPassthroughClusters: one passthrough cluster per IP version the
\* proxy supports, bound to the source address of that version, port 0.
buildInboundPassthroughClusters(push, supportsIPv4, supportsIPv6) ==
    LET ipv4 == [buildDefaultPassthroughCluster(push) EXCEPT
                    !.Name = InboundPassthroughClusterIpv4,
                    !.UpstreamBindConfig = [Address |-> InboundPassthroughBindIpv4, PortValue |-> 0]]
        ipv6 == [buildDefaultPassthroughCluster(push) EXCEPT
                    !.Name = InboundPassthroughClusterIpv6,
                    !.UpstreamBindConfig = [Address |-> InboundPassthroughBindIpv6, PortValue |-> 0]]
    IN  (IF supportsIPv4 THEN <<ipv4>> ELSE <<>>) \o (IF supportsIPv6 THEN <<ipv6>> ELSE <<>>)

\* ------------------------------------------------------------------- state
VARIABLES
    pods,                \* cacheImpl.pods
    nodeNameToLocality,  \* cacheImpl.nodeNameToLocality
    panicked,            \* a Handle call panicked
    w,                   \* where the goroutine that calls Handle stands in it
    got,                 \* what the last GetPodByIP of the reader goroutine returned
    crashed,             \* the runtime stopped the process (fatal error)
    metrics,             \* PushContext: the DNSNoEndpointClusters metric, by cluster name
    req,                 \* the arguments of the last compile of the ClusterBuilder
    built,               \* the clusters the last compile returned
    made,                \* the clusters the last build of synthetic clusters returned
    applied,             \* the last call of maybeApplyEdsConfig: its cluster before and after
    session,             \* the discovery session of one (connection, resource type)
    server,              \* the configuration version the server holds, the nonces it issued
    event                \* the last step of the discovery session and what it sent

vars == <<pods, nodeNameToLocality, panicked, w, got, crashed,
          metrics, req, built, made, applied, session, server, event>>

\* The state of the pod cache, of the ClusterBuilder, of the discovery session.
cacheVars == <<pods, nodeNameToLocality, panicked, w, got, crashed>>
cbVars == <<metrics, req, built, made, applied>>
adsVars == <<session, server, event>>

cache == [pods |-> pods, nodeNameToLocality |-> nodeNameToLocality]

\* The Handle goroutine between two calls.
Idle == [pc |-> "idle", nodeName |-> "", locality |-> "", todo |-> {}, result |-> EmptyMap,
         pending |-> <<>>]

\* The zero Info GetPodByIP returns with ok = false.
NoInfo == [IP |-> "", FullName |-> "", NodeName |-> "", Locality |-> "", Labels |-> {},
           ServiceAccountName |-> ""]

\* No GetPodByIP has returned yet.
NoLookup == [ip |-> "", ok |-> FALSE, pod |-> NoInfo, torn |-> FALSE, busy |-> FALSE]

\* No compile was asked for yet.
NoCompile == [service |-> Nil, port |-> Nil, discoveryType |-> "", clusterMode |-> "",
              destRule |-> Nil, instances |-> <<>>]

\* maybeApplyEdsConfig was not called on a cluster of its own yet.
NoApply == [cluster |-> Nil, result |-> Nil]

\* The session of a (connection, resource type) no request has reached yet:
\* no version accepted (0), no nonce outstanding (0), no push awaiting its
\* acknowledgment.
NoSession == [state |-> "Uninitialized", accepted |-> 0, nonce |-> 0, sent |-> 0]

\* A DiscoveryRequest of the client: ResponseNonce (0 when empty),
\* VersionInfo (0 when empty), ErrorDetail set or not.
Request(nonce, versionInfo, errorDetail) ==
    [ResponseNonce |-> nonce, VersionInfo |-> versionInfo, ErrorDetail |-> errorDetail]

\* No step of the session was taken yet.
NoEvent == [kind |-> "none", request |-> Request(0, 0, FALSE), pushed |-> FALSE]

\* NewCache; a builder over a new PushContext; a connection just accepted.
Init ==
    /\ pods = EmptyMap
    /\ nodeNameToLocality = EmptyMap
    /\ panicked = FALSE
    /\ w = Idle
    /\ got = NoLookup
    /\ crashed = FALSE
    /\ metrics = EmptyMap
    /\ req = NoCompile
    /\ built = <<>>
    /\ made = <<>>
    /\ applied = NoApply
    /\ session = NoSession
    /\ server = [version |-> 1, nonces |-> 0]
    /\ event = NoEvent

\* Handle(e), start to end, with no other call running: the cache and the
\* listener calls are those of one of the outcomes of Handle.
Apply(e) ==
    /\ ~panicked
    /\ \E r \in Handle(cache, e) :
        /\ pods' = r.pods
        /\ nodeNameToLocality' = r.nodeNameToLocality
        /\ panicked' = r.panic
    /\ UNCHANGED <<w, got, crashed, cbVars, adsVars>>

HandleNodeEvent == \E e \in NodeEvents : Apply(e)
HandlePodEvent == \E e \in PodEvents : Apply(e)
HandleOtherEvent == \E e \in OtherEvents : Apply(e)

Next == HandleNodeEvent \/ HandlePodEvent \/ HandleOtherEvent

Spec == Init /\ [][Next]_vars

\* ------------------------------------------------- Handle beside GetPodByIP
\* cacheImpl holds no lock: GetPodByIP, called from another goroutine, reads
\* pc.pods at any point of a Handle call.  Handle is taken statement by
\* statement; one goroutine calls it, one event at a time.

\* The events taken statement by statement: those of node n1, and the adds
\* and deletes of running pods that carry an IP and no labels.
ConcNodeEvents == {e \in NodeEvents : e.Name = "n1"}
ConcPodEvents ==
    {e \in PodEvents : /\ e.Kind # "Updated" /\ e.HasPod /\ e.Item.PodIP # ""
                       /\ e.Item.Labels = {} /\ e.Item.Phase = "Running"}

\* handleNode up to the call of updatePodLocality: the index is written.
NodeBegin ==
    \E e \in ConcNodeEvents :
        /\ ~crashed /\ w.pc = "idle"
        /\ IF e.Kind \in {"Added", "Updated"}
           THEN IF nodeLocality(e) # MapGet(nodeNameToLocality, e.Name)
                THEN /\ nodeNameToLocality' = MapPut(nodeNameToLocality, e.Name, nodeLocality(e))
                     /\ w' = [Idle EXCEPT !.pc = "range", !.nodeName = e.Name,
                                          !.locality = nodeLocality(e), !.todo = DOMAIN pods]
                ELSE UNCHANGED <<nodeNameToLocality, w>>
           ELSE IF e.Name \in DOMAIN nodeNameToLocality
                THEN /\ nodeNameToLocality' = MapDelete(nodeNameToLocality, e.Name)
                     /\ w' = [Idle EXCEPT !.pc = "range", !.nodeName = e.Name,
                                          !.locality = "", !.todo = DOMAIN pods]
                ELSE UNCHANGED <<nodeNameToLocality, w>>
        /\ UNCHANGED <<pods, panicked, got, crashed, cbVars, adsVars>>

\* One iteration of the range over pc.pods in updatePodLocality.
RangeStep ==
    /\ ~crashed /\ w.pc = "range"
    /\ \E ip \in w.todo :
        /\ IF pods[ip].NodeName = w.nodeName
           THEN LET pod == [pods[ip] EXCEPT !.Locality = w.locality] IN
                /\ pods' = MapPut(pods, ip, pod)
                /\ w' = [w EXCEPT !.todo = @ \ {ip},
                                  !.pending = Append(@, Note("PodUpdated", pod))]
           ELSE /\ pods' = pods
                /\ w' = [w EXCEPT !.todo = @ \ {ip}]
    /\ UNCHANGED <<nodeNameToLocality, panicked, got, crashed, cbVars, adsVars>>

\* The range is over: on to the listener, or back to the caller.
RangeEnd ==
    /\ ~crashed /\ w.pc = "range" /\ w.todo = {}
    /\ w' = IF w.pending = <<>> THEN Idle ELSE [w EXCEPT !.pc = "notify"]
    /\ UNCHANGED <<pods, nodeNameToLocality, panicked, got, crashed, cbVars, adsVars>>

\* handlePod that goes to the listener with the map not yet written.
PodBegin_NotifyFirst ==
    \E e \in ConcPodEvents : \E r \in handlePod(cache, e) :
        /\ ~crashed /\ w.pc = "idle"
        /\ w' = IF r.notes = <<>> THEN Idle
                ELSE [Idle EXCEPT !.pc = "notify", !.pending = r.notes]
        /\ panicked' = r.panic
        /\ UNCHANGED <<pods, nodeNameToLocality, got, crashed, cbVars, adsVars>>

\* handlePod up to the map write of updatePod or deletePod; a call that
\* writes nothing returns at once.
PodBegin ==
    \E e \in ConcPodEvents : \E r \in handlePod(cache, e) :
        /\ ~crashed /\ w.pc = "idle"
        /\ w' = IF r.notes = <<>> THEN Idle
                ELSE [Idle EXCEPT !.pc = "store", !.result = r.pods, !.pending = r.notes]
        /\ panicked' = r.panic
        /\ UNCHANGED <<pods, nodeNameToLocality, got, crashed, cbVars, adsVars>>

\* pc.pods[pod.IP] = pod of updatePod, delete(pc.pods, ip) of deletePod.
StoreStep ==
    /\ ~crashed /\ w.pc = "store"
    /\ pods' = w.result
    /\ w' = [w EXCEPT !.pc = "notify", !.result = EmptyMap]
    /\ UNCHANGED <<nodeNameToLocality, panicked, got, crashed, cbVars, adsVars>>

\* One listener call; after the last, Handle returns.
NotifyStep ==
    /\ ~crashed /\ w.pc = "notify"
    /\ w' = IF Len(w.pending) = 1 THEN Idle ELSE [w EXCEPT !.pending = Tail(@)]
    /\ UNCHANGED <<pods, nodeNameToLocality, panicked, got, crashed, cbVars, adsVars>>

\* Handle is about to write pc.pods: a read now races with the write.
Writing ==
    \/ w.pc = "store"
    \/ w.pc = "range" /\ \E ip \in w.todo : pods[ip].NodeName = w.nodeName

\* GetPodByIP(ip) on the reader goroutine.  It returns what the map holds; got
\* also notes whether Handle was under way (busy) and whether the record
\* returned had a locality other than the one indexed for its node (torn).
\* When the read races with a write of Handle, the runtime may instead detect
\* the concurrent map read and map write and stop the process.
GetPodByIP ==
    \E ip \in IPs :
        /\ ~crashed
        /\ \/ /\ got' = [ip |-> ip,
                          ok |-> ip \in DOMAIN pods,
                          pod |-> IF ip \in DOMAIN pods THEN pods[ip] ELSE NoInfo,
                          torn |-> /\ ip \in DOMAIN pods
                                   /\ pods[ip].Locality
                                          # MapGet(nodeNameToLocality, pods[ip].NodeName),
                          busy |-> w.pc # "idle"]
              /\ crashed' = crashed
           \/ /\ Writing
              /\ crashed' = TRUE
              /\ got' = got
        /\ UNCHANGED <<pods, nodeNameToLocality, panicked, w, cbVars, adsVars>>

NextConc ==
    NodeBegin \/ RangeStep \/ RangeEnd \/ PodBegin \/ StoreStep \/ NotifyStep \/ GetPodByIP

SpecConc == Init /\ [][NextConc]_vars

\* Handle taken statement by statement with no reader beside it.
NextHandle == NodeBegin \/ RangeStep \/ RangeEnd \/ PodBegin \/ StoreStep \/ NotifyStep

SpecHandle == Init /\ [][NextHandle]_vars

\* -------------------------------------------------- compiles of the builder
\* The compiles the builder is asked for.
CompileRequests ==
    [service : Services, port : Ports, discoveryType : DiscoveryTypes,
     clusterMode : ClusterModes, destRule : DestinationRules, instances : InstanceLists]

\* The metric additions of a push context, over all its keys.
RECURSIVE SumOf(_)
SumOf(m) ==
    IF DOMAIN m = {} THEN 0
    ELSE LET k == CHOOSE k \in DOMAIN m : TRUE
         IN  m[k] + SumOf([j \in (DOMAIN m) \ {k} |-> m[j]])

\* One compile on the push context as it stands, once the caller has taken
\* the clusters of the one before; the metric is bounded.
Compile ==
    \E q \in CompileRequests :
        LET r == compile(PushContext(metrics, q.destRule, q.instances),
                         q.service, q.port, q.discoveryType, q.clusterMode)
        IN  /\ req = NoCompile /\ made = <<>> /\ applied = NoApply
            /\ SumOf(r.push.metrics) <= MaxMetrics
            /\ req' = q
            /\ built' = r.clusters
            /\ metrics' = r.push.metrics
    /\ UNCHANGED <<made, applied, cacheVars, adsVars>>

\* The clusters no service stands behind, built once the caller has taken
\* those of the operation before: the black-hole cluster, the passthrough
\* cluster, the inbound passthrough clusters of a proxy.
BuildBlackHole ==
    /\ req = NoCompile /\ made = <<>> /\ applied = NoApply
    /\ made' = <<buildBlackHoleCluster(PushContext(metrics, Nil, <<>>))>>
    /\ UNCHANGED <<metrics, req, built, applied, cacheVars, adsVars>>

BuildPassthrough ==
    /\ req = NoCompile /\ made = <<>> /\ applied = NoApply
    /\ made' = <<buildDefaultPassthroughCluster(PushContext(metrics, Nil, <<>>))>>
    /\ UNCHANGED <<metrics, req, built, applied, cacheVars, adsVars>>

BuildInboundPassthrough ==
    \E supportsIPv4, supportsIPv6 \in BOOLEAN :
        /\ req = NoCompile /\ made = <<>> /\ applied = NoApply
        /\ made' = buildInboundPassthroughClusters(PushContext(metrics, Nil, <<>>),
                                                   supportsIPv4, supportsIPv6)
        /\ UNCHANGED <<metrics, req, built, applied, cacheVars, adsVars>>

\* The values of the ClusterDiscoveryType oneof: a Cluster_Type with one of
\* the discovery types, a Cluster_ClusterType (a custom cluster type), or
\* nothing (the discovery type is unset).
ClusterDiscoveryTypes ==
    {[kind |-> "Type", Type |-> t] : t \in DiscoveryTypes}
    \cup {[kind |-> "ClusterType", ClusterType |-> "envoy.clusters.redis"], [kind |-> "nil"]}

\* The clusters maybeApplyEdsConfig is called on.
EdsClusters ==
    {[NewCluster(BuildSubsetKey(TrafficDirectionOutbound, "", "svc", 80), "STATIC")
         EXCEPT !.ClusterDiscoveryType = d] : d \in ClusterDiscoveryTypes}

\* maybeApplyEdsConfig(cluster) on a cluster of any discovery type.
ApplyEds ==
    \E cluster \in EdsClusters :
        /\ req = NoCompile /\ made = <<>> /\ applied = NoApply
        /\ applied' = [cluster |-> cluster, result |-> maybeApplyEdsConfig(cluster)]
        /\ UNCHANGED <<metrics, req, built, made, cacheVars, adsVars>>

\* The caller takes the clusters the operation returned.
Collect ==
    /\ req # NoCompile \/ made # <<>> \/ applied # NoApply
    /\ req' = NoCompile
    /\ built' = <<>>
    /\ made' = <<>>
    /\ applied' = NoApply
    /\ UNCHANGED <<metrics, cacheVars, adsVars>>

\* A push starts with a new PushContext.
NewPush ==
    /\ req = NoCompile /\ made = <<>> /\ applied = NoApply
    /\ metrics # EmptyMap
    /\ metrics' = EmptyMap
    /\ UNCHANGED <<req, built, made, applied, cacheVars, adsVars>>

NextBuild ==
    \/ Compile \/ Collect \/ NewPush
    \/ BuildBlackHole \/ BuildPassthrough \/ BuildInboundPassthrough \/ ApplyEds

SpecBuild == Init /\ [][NextBuild]_vars

\* --------------------------------------------------------- discovery session
\* The session of one (connection, resource type), as section 4.3 of the
\* specification gives its transitions.  Versions and nonces are numbered from
\* 1; 0 stands for none.

\* ResponseNonce: time.Now().String(), a nonce the server never issued.
TimeNonce == MaxPushes + 1

\* The requests a client sends: sendEDSReq (the time nonce, no version),
\* sendEDSNack (the time nonce, no version, an error detail),
\* sendEDSReqReconnect (the nonce and version of a response it received), and
\* any other nonce, version and error detail.
Requests ==
    {Request(n, v, e) : n \in 0..TimeNonce, v \in 0..MaxVersion, e \in BOOLEAN}

\* The request echoes the outstanding nonce of session s.
Echoes(s, r) == s.nonce # 0 /\ r.ResponseNonce = s.nonce

\* Compile the current configuration and send it under a fresh nonce: the
\* session awaits the acknowledgment of that push.
Push(s, srv) ==
    [session |-> [s EXCEPT !.state = "AwaitingAck", !.nonce = srv.nonces + 1,
                           !.sent = srv.version],
     server |-> [srv EXCEPT !.nonces = @ + 1],
     pushed |-> TRUE]

\* No push: the session as given.
Quiet(s, srv) == [session |-> s, server |-> srv, pushed |-> FALSE]

\* Receive that sends no push after an acknowledgment.
Receive_AckSendsNothing(s, srv, r) ==
    IF r.ErrorDetail
    THEN IF s.nonce # 0
         THEN Quiet([s EXCEPT !.state = "Accepted", !.nonce = 0, !.sent = 0], srv)
         ELSE Quiet(s, srv)
    ELSE IF Echoes(s, r)
    THEN Quiet([s EXCEPT !.state = "Accepted", !.accepted = s.sent, !.nonce = 0, !.sent = 0],
               srv)
    ELSE IF s.accepted # 0 /\ r.VersionInfo = s.accepted
    THEN Quiet(s, srv)
    ELSE Push(s, srv)

\* Receive that sends the configuration again after a negative acknowledgment.
Receive_NackRetries(s, srv, r) ==
    IF r.ErrorDetail
    THEN IF s.nonce # 0 THEN Push(s, srv) ELSE Quiet(s, srv)
    ELSE IF Echoes(s, r)
    THEN LET acked == [s EXCEPT !.state = "Accepted", !.accepted = s.sent,
                                !.nonce = 0, !.sent = 0]
         IN  IF srv.version # s.sent THEN Push(acked, srv) ELSE Quiet(acked, srv)
    ELSE IF s.accepted # 0 /\ r.VersionInfo = s.accepted
    THEN Quiet(s, srv)
    ELSE Push(s, srv)

\* Receive that answers every request under another nonce with a push.
Receive_NoSuppression(s, srv, r) ==
    IF r.ErrorDetail
    THEN IF s.nonce # 0
         THEN Quiet([s EXCEPT !.state = "Accepted", !.nonce = 0, !.sent = 0], srv)
         ELSE Quiet(s, srv)
    ELSE IF Echoes(s, r)
    THEN LET acked == [s EXCEPT !.state = "Accepted", !.accepted = s.sent,
                                !.nonce = 0, !.sent = 0]
         IN  IF srv.version # s.sent THEN Push(acked, srv) ELSE Quiet(acked, srv)
    ELSE Push(s, srv)

\* The session's answer to request r of the client.
\*  - an error detail is a negative acknowledgment: the session stays at the
\*    version it had accepted, the outstanding push is given up, nothing is
\*    sent;
\*  - the outstanding nonce without error detail is an acknowledgment: the
\*    version sent is accepted and, if the configuration has changed since that
\*    push, the next push is sent;
\*  - any other nonce without error detail is a first request or a reconnect
\*    probe: nothing is sent when the version reported is the accepted one, the
\*    current configuration under a fresh nonce otherwise.
Receive(s, srv, r) ==
    IF r.ErrorDetail
    THEN IF s.nonce # 0
         THEN Quiet([s EXCEPT !.state = "Accepted", !.nonce = 0, !.sent = 0], srv)
         ELSE Quiet(s, srv)
    ELSE IF Echoes(s, r)
    THEN LET acked == [s EXCEPT !.state = "Accepted", !.accepted = s.sent,
                                !.nonce = 0, !.sent = 0]
         IN  IF srv.version # s.sent THEN Push(acked, srv) ELSE Quiet(acked, srv)
    ELSE IF s.accepted # 0 /\ r.VersionInfo = s.accepted
    THEN Quiet(s, srv)
    ELSE Push(s, srv)

\* The session's part in a change of the configuration: a session that is
\* waiting for nothing is pushed the new configuration; one awaiting an
\* acknowledgment is pushed nothing until it comes; one no request has reached
\* is pushed nothing.
Changed(s, srv) ==
    IF s.state = "Accepted" THEN Push(s, srv) ELSE Quiet(s, srv)

\* One step of the session: its outcome o, after an event of the given kind.
Step(kind, r, o) ==
    /\ o.server.nonces <= MaxPushes
    /\ session' = o.session
    /\ server' = o.server
    /\ event' = [kind |-> kind, request |-> r, pushed |-> o.pushed]
    /\ UNCHANGED <<cacheVars, cbVars>>

\* The client sends a request on the open connection.
ClientRequest ==
    \E r \in Requests :
        /\ session.state # "Closed"
        /\ Step("request", r, Receive(session, server, r))

\* The configuration changes.
ConfigChange ==
    /\ server.version < MaxVersion
    /\ Step("change", Request(0, 0, FALSE),
            Changed(session, [server EXCEPT !.version = @ + 1]))

\* The connection closes: the state of the session is discarded.
Disconnect ==
    /\ session.state # "Closed"
    /\ Step("disconnect", Request(0, 0, FALSE),
            Quiet([NoSession EXCEPT !.state = "Closed"], server))

\* The client connects again: a new connection, a new session.
Connect ==
    /\ session.state = "Closed"
    /\ Step("connect", Request(0, 0, FALSE), Quiet(NoSession, server))

NextAds == ClientRequest \/ ConfigChange \/ Disconnect \/ Connect

SpecAds == Init /\ [][NextAds]_vars

\* ------------------------------------------------------------------ claims
\* The listener callbacks called, in order.
Kinds(notes) == [i \in 1..Len(notes) |-> notes[i].kind]

\* The cache an outcome leaves.
After(r) == [pods |-> r.pods, nodeNameToLocality |-> r.nodeNameToLocality]

IsUpsert(e) == e.Source = "Pods" /\ e.Kind \in {"Added", "Updated"}

\* A pod Added/Updated in Pending/Running phase with an IP.
Live(e) == IsUpsert(e) /\ e.Item.PodIP # "" /\ e.Item.Phase \in {"Pending", "Running"}

\* The cache holds, under e's IP, the very record e would store.
Stored(c, e) == e.Item.PodIP \in DOMAIN c.pods /\ c.pods[e.Item.PodIP] = podInfo(c, e)

RecordsAt(ps, ip) == {i \in DOMAIN ps : ps[i].IP = ip}

\* C1 as stated: whatever the cache holds, a Pending/Running pod upsert with an
\* IP applied twice in a row notifies exactly once the first time and not at all
\* the second, and leaves one record for the IP, the one the first left.
C1_Original ==
    \A e \in PodEvents : Live(e) =>
        \A r1 \in Handle(cache, e) : \A r2 \in Handle(After(r1), e) :
            /\ Len(r1.notes) = 1
            /\ r2.notes = <<>>
            /\ After(r2) = After(r1)
            /\ Cardinality(RecordsAt(r2.pods, e.Item.PodIP)) = 1

\* C1 amended: the first application notifies exactly once unless the cache
\* already holds the identical record under that IP, and then not at all; the
\* second never notifies and changes nothing; one record is left for the IP.
C1_Idempotent ==
    \A e \in PodEvents : Live(e) =>
        \A r1 \in Handle(cache, e) : \A r2 \in Handle(After(r1), e) :
            /\ Len(r1.notes) = (IF Stored(cache, e) THEN 0 ELSE 1)
            /\ r2.notes = <<>>
            /\ ~r2.panic
            /\ After(r2) = After(r1)
            /\ Cardinality(RecordsAt(r2.pods, e.Item.PodIP)) = 1

\* The cache holds what a first application of e left (the record of e under
\* its IP, beside another pod's record), and e is applied once more.
C1_Witness ==
    \E e \in PodEvents :
        /\ Live(e) /\ Stored(cache, e)
        /\ \E ip \in DOMAIN pods : pods[ip].FullName # e.Name
        /\ \A r \in Handle(cache, e) : r.notes = <<>>

\* C2: a pod upsert that differs from the stored record is stored under its IP
\* and notified exactly once, as PodAdded when the IP had no record and as
\* PodUpdated when it had one.
C2_UpsertNotifies ==
    \A e \in PodEvents : (Live(e) /\ ~Stored(cache, e)) =>
        \A r \in Handle(cache, e) :
            LET ip == e.Item.PodIP IN
            /\ DOMAIN r.pods = (DOMAIN pods) \cup {ip}
            /\ \A i \in (DOMAIN pods) \ {ip} : r.pods[i] = pods[i]
            /\ r.pods[ip].IP = ip
            /\ r.pods[ip].FullName = e.Name
            /\ r.pods[ip].Labels = e.Item.Labels
            /\ r.pods[ip].NodeName = e.Item.NodeName
            /\ r.pods[ip] = podInfo(cache, e)
            /\ r.nodeNameToLocality = nodeNameToLocality
            /\ r.notes = <<Note(IF ip \in DOMAIN pods THEN "PodUpdated" ELSE "PodAdded",
                                r.pods[ip])>>

\* A record is stored, and an upsert for its IP with other labels is notified
\* as PodUpdated, while an upsert for a free IP is notified as PodAdded.
C2_Witness ==
    /\ \E e \in PodEvents :
           /\ Live(e) /\ ~Stored(cache, e) /\ e.Item.PodIP \in DOMAIN pods
           /\ pods[e.Item.PodIP].Labels # e.Item.Labels
           /\ \E r \in Handle(cache, e) : Kinds(r.notes) = <<"PodUpdated">>
    /\ \E e \in PodEvents :
           /\ Live(e) /\ e.Item.PodIP \notin DOMAIN pods
           /\ \E r \in Handle(cache, e) : Kinds(r.notes) = <<"PodAdded">>

\* C3 as stated: one record per IP, and the record under an IP changes its
\* identity name only if the same Handle notified PodDeleted (for the record
\* that was there).
C3_Original ==
    /\ \A ip \in DOMAIN pods : RecordsAt(pods, ip) = {ip}
    /\ \A e \in NodeEvents \cup PodEvents : \A r \in Handle(cache, e) :
           \A ip \in (DOMAIN pods) \cap (DOMAIN r.pods) :
               r.pods[ip].FullName # pods[ip].FullName
                   => \E i \in 1..Len(r.notes) : r.notes[i] = Note("PodDeleted", pods[ip])

\* C4: every stored record's locality is the locality indexed for its node,
\* "" when the node has no index entry.
C4_LocalityConsistent ==
    \A ip \in DOMAIN pods : pods[ip].Locality = MapGet(nodeNameToLocality, pods[ip].NodeName)

\* Every IP holds a pod, the pods are on different nodes, and each carries the
\* locality its node's labels gave, one of them without a zone.
C4_Witness ==
    /\ DOMAIN pods = IPs
    /\ \A ip \in DOMAIN pods : pods[ip].Locality # ""
    /\ \E i, j \in DOMAIN pods :
           pods[i].NodeName # pods[j].NodeName /\ pods[i].Locality # pods[j].Locality

\* A node event that changes what the index holds for its node.
NodeChanges(c, e) ==
    IF e.Kind = "Deleted" THEN e.Name \in DOMAIN c.nodeNameToLocality
    ELSE nodeLocality(e) # MapGet(c.nodeNameToLocality, e.Name)

\* C5: a node event that changes the node's locality (or deletes an indexed
\* node) notifies PodUpdated exactly once per pod bound to the node, with the
\* new locality ("" on delete), stores it, and touches no other pod.
C5_LocalityPropagation ==
    \A e \in NodeEvents : NodeChanges(cache, e) =>
        \A r \in Handle(cache, e) :
            LET bound == {ip \in DOMAIN pods : pods[ip].NodeName = e.Name}
                newLocality == IF e.Kind = "Deleted" THEN "" ELSE nodeLocality(e)
            IN  /\ Len(r.notes) = Cardinality(bound)
                /\ DOMAIN r.pods = DOMAIN pods
                /\ \A ip \in bound :
                       /\ r.pods[ip] = [pods[ip] EXCEPT !.Locality = newLocality]
                       /\ Cardinality({i \in 1..Len(r.notes) : r.notes[i].info.IP = ip}) = 1
                       /\ \E i \in 1..Len(r.notes) : r.notes[i] = Note("PodUpdated", r.pods[ip])
                /\ \A ip \in (DOMAIN pods) \ bound : r.pods[ip] = pods[ip]

\* Pods are bound to both nodes, both with a locality, and a node event
\* changes the locality of one node: its pod is notified, the other is not.
C5_Witness ==
    \E e \in NodeEvents :
        /\ NodeChanges(cache, e)
        /\ \E i, j \in DOMAIN pods :
               /\ pods[i].NodeName = e.Name /\ pods[j].NodeName # e.Name
               /\ pods[i].Locality # "" /\ pods[j].Locality # ""
        /\ \A r \in Handle(cache, e) : Kinds(r.notes) = <<"PodUpdated">>

\* C6: a node add/update whose locality equals the stored one, and a delete of
\* a node that is not indexed, change nothing and notify nothing.
C6_NodeNoOp ==
    \A e \in NodeEvents : ~NodeChanges(cache, e) =>
        \A r \in Handle(cache, e) : After(r) = cache /\ r.notes = <<>>

\* An indexed node with a locality and a bound pod receives an update with
\* the labels it has, and the other node, not indexed, is deleted.
C6_Witness ==
    /\ \E e \in NodeEvents :
           /\ e.Kind = "Updated" /\ ~NodeChanges(cache, e)
           /\ e.Name \in DOMAIN nodeNameToLocality
           /\ nodeNameToLocality[e.Name] # ""
           /\ \E ip \in DOMAIN pods : pods[ip].NodeName = e.Name
    /\ \E e \in NodeEvents :
           /\ e.Kind = "Deleted" /\ ~NodeChanges(cache, e)
           /\ \E ip \in DOMAIN pods : pods[ip].NodeName = e.Name

NoneNamed(c, name) == \A ip \in DOMAIN c.pods : c.pods[ip].FullName # name

\* C7: a pod delete for a stored IP removes that record alone and notifies
\* one PodDeleted carrying it; a delete for an absent IP, or one that resolves
\* to no record, changes nothing, notifies nothing and does not panic.
C7_PodRemoval ==
    /\ \A ip \in IPs \cup {""} :
           LET r == deletePod(cache, ip) IN
           IF ip \in DOMAIN pods
           THEN /\ r.pods = MapDelete(pods, ip)
                /\ r.nodeNameToLocality = nodeNameToLocality
                /\ r.notes = <<Note("PodDeleted", pods[ip])>>
           ELSE After(r) = cache /\ r.notes = <<>>
    /\ \A e \in PodEvents : (e.Kind = "Deleted") =>
           \A r \in Handle(cache, e) :
               /\ ~r.panic
               /\ (e.HasPod /\ e.Item.PodIP \in DOMAIN pods) =>
                      /\ r.pods = MapDelete(pods, e.Item.PodIP)
                      /\ r.nodeNameToLocality = nodeNameToLocality
                      /\ r.notes = <<Note("PodDeleted", pods[e.Item.PodIP])>>
               /\ (e.HasPod /\ e.Item.PodIP \notin DOMAIN pods) =>
                      After(r) = cache /\ r.notes = <<>>
               /\ (~e.HasPod /\ NoneNamed(cache, e.Name)) =>
                      After(r) = cache /\ r.notes = <<>>

\* Two records are stored; a Deleted event with the IP of one removes it
\* and leaves the other; a Deleted event for an unknown name finds nothing.
C7_Witness ==
    /\ DOMAIN pods = IPs
    /\ \E e \in PodEvents :
           /\ e.Kind = "Deleted" /\ e.HasPod /\ e.Item.PodIP \in DOMAIN pods
           /\ \A r \in Handle(cache, e) :
                  Kinds(r.notes) = <<"PodDeleted">> /\ Cardinality(DOMAIN r.pods) = NumIPs - 1
    /\ \E e \in PodEvents : e.Kind = "Deleted" /\ ~e.HasPod /\ NoneNamed(cache, e.Name)

\* Exactly one record named as e is removed, and PodDeleted carries it.
RemovesOneNamed(c, e, r) ==
    \E ip \in DOMAIN c.pods :
        /\ c.pods[ip].FullName = e.Name
        /\ r.pods = MapDelete(c.pods, ip)
        /\ r.notes = <<Note("PodDeleted", c.pods[ip])>>

\* C8 as stated: a pod Deleted event whose payload lacks an IP, while a
\* stored record has the event's name, removes that record with a PodDeleted.
C8_Original ==
    \A e \in PodEvents :
        (e.Kind = "Deleted" /\ (~e.HasPod \/ e.Item.PodIP = "") /\ ~NoneNamed(cache, e.Name)) =>
            \A r \in Handle(cache, e) : RemovesOneNamed(cache, e, r)

\* C8 amended: the fallback runs when the Deleted event carries no pod at all;
\* then one record with the event's name is removed with a PodDeleted.  A
\* Deleted event carrying a pod whose IP is empty removes nothing.
C8_Fallback ==
    \A e \in PodEvents : (e.Kind = "Deleted") =>
        \A r \in Handle(cache, e) :
            /\ (~e.HasPod /\ ~NoneNamed(cache, e.Name)) => RemovesOneNamed(cache, e, r)
            /\ (e.HasPod /\ e.Item.PodIP = "") => (After(r) = cache /\ r.notes = <<>>)

\* Records of two pods are stored, and a Deleted event that carries no pod
\* removes, by name, the record of the pod it names.
C8_Witness ==
    \E e \in PodEvents :
        /\ e.Kind = "Deleted" /\ ~e.HasPod /\ ~NoneNamed(cache, e.Name)
        /\ \E ip \in DOMAIN pods : pods[ip].FullName # e.Name
        /\ \A r \in Handle(cache, e) :
               Kinds(r.notes) = <<"PodDeleted">> /\ NoneNamed(After(r), e.Name)

\* C9 as stated: a pod Added/Updated without an IP is dropped, and the first
\* event after it that shows that pod (not stored so far) with an IP in
\* Pending/Running phase notifies PodAdded, not PodUpdated.
C9_Original ==
    \A e1 \in PodEvents : (IsUpsert(e1) /\ e1.Item.PodIP = "") =>
        \A r1 \in Handle(cache, e1) :
            /\ After(r1) = cache
            /\ r1.notes = <<>>
            /\ NoneNamed(cache, e1.Name) =>
                   \A e2 \in PodEvents : (Live(e2) /\ e2.Name = e1.Name) =>
                       \A r2 \in Handle(After(r1), e2) : Kinds(r2.notes) = <<"PodAdded">>

\* C10 as stated: a lookup is safe beside event application: it never stops
\* the process, never runs while a Handle call is under way, and never returns
\* a record whose locality is not the one indexed for its node.
C10_Original ==
    /\ ~crashed
    /\ ~got.busy
    /\ ~got.torn

\* ---------------------------------------------------- claims of the builder
\* The discovery types whose clusters carry their endpoints inline.
InlineTypes == {"STATIC", "STRICT_DNS"}

\* The push context of the last compile, before any compile added to it.
Fresh(q) == PushContext(EmptyMap, q.destRule, q.instances)

\* The destination rule of the last compile and the subsets it lists.
Rule == castDestinationRuleOrDefault(req.destRule)

\* The cluster names the metric counts so far, and one it may not count yet.
ClusterNames == (DOMAIN metrics) \cup {BuildSubsetKey("inbound", "", "svc", 80)}

\* C11: buildDefaultCluster of a STATIC or STRICT_DNS cluster with no endpoint
\* returns no cluster and adds one to the metric of that cluster name, and to
\* no other; with endpoints it returns a cluster whose load assignment holds
\* exactly those endpoints; a cluster of any other type is always returned;
\* and whenever a cluster is returned the metric is left alone.  Checked for
\* the names the metric counts already and for one more.
C11_EmptyEndpointsRejected ==
    \A name \in ClusterNames : \A t \in DiscoveryTypes : \A eps \in InstanceLists :
        LET push == PushContext(metrics, Nil, eps)
            b == buildDefaultCluster(push, name, t, eps, TrafficDirectionOutbound, Nil, FALSE)
        IN  IF t \in InlineTypes /\ eps = <<>>
            THEN /\ b.cluster = Nil
                 /\ MetricCount(b.push.metrics, name) = MetricCount(metrics, name) + 1
                 /\ DOMAIN b.push.metrics = (DOMAIN metrics) \cup {name}
                 /\ \A k \in (DOMAIN metrics) \ {name} : b.push.metrics[k] = metrics[k]
            ELSE /\ b.cluster # Nil
                 /\ b.cluster.Name = name
                 /\ GetType(b.cluster) = t
                 /\ b.push.metrics = metrics
                 /\ IF t \in InlineTypes
                    THEN b.cluster.LoadAssignment = [ClusterName |-> name, Endpoints |-> eps]
                    ELSE b.cluster.LoadAssignment = Nil

\* A compile of a STATIC cluster of a service without instances has returned
\* nothing and the metric of its name, counted before, stands at two.
C11_Witness ==
    /\ req # NoCompile
    /\ req.discoveryType = "STATIC" /\ req.instances = <<>>
    /\ built = <<>>
    /\ MetricCount(metrics, subsetClusterName(req.clusterMode, "", req.service, req.port)) = 2

\* The instances of the last compile that carry the labels of subset s.
Matching(s) == SelectSeq(req.instances, LAMBDA i : s.Labels \subseteq i.Labels)

\* The discovery type of the default cluster once the rule's policy is applied.
DefaultType == GetType(built[1])

\* Subset s of the last compile gets no cluster: its cluster would carry its
\* endpoints inline and has none.
Rejected(s) == DefaultType \in InlineTypes /\ (s.Labels = {} \/ Matching(s) = <<>>)

\* The subsets of the rule that are not rejected, in the order of the rule.
Kept == SelectSeq(Rule.Subsets, LAMBDA s : ~Rejected(s))

\* The last request with the subsets of its destination rule taken away.
WithoutSubsets(q) ==
    IF q.destRule = Nil THEN q ELSE [q EXCEPT !.destRule.Spec.Subsets = <<>>]

\* The clusters of request q compiled on a new PushContext.
CompiledAfresh(q) ==
    compile(Fresh(q), q.service, q.port, q.discoveryType, q.clusterMode).clusters

\* C12: when the default cluster is built, the subset clusters returned are
\* those of the subsets that are not rejected for lack of endpoints, one each,
\* in the order of the destination rule, and the default cluster is the one the
\* same rule without subsets gives.
C12_PartialFailure ==
    built # <<>> =>
        /\ Len(built) = 1 + Len(Kept)
        /\ \A i \in 1..Len(Kept) :
            /\ built[i + 1].Name =
                   subsetClusterName(req.clusterMode, Kept[i].Name, req.service, req.port)
            /\ built[i + 1].Metadata.subset = Kept[i].Name
        /\ built[1] = CompiledAfresh(WithoutSubsets(req))[1]

\* The first subset of the rule was rejected and the second one built.
C12_Witness ==
    /\ built # <<>>
    /\ Len(Rule.Subsets) = 2
    /\ Rejected(Rule.Subsets[1])
    /\ Len(built) = 2
    /\ built[2].Metadata.subset = Rule.Subsets[2].Name
    /\ MetricCount(metrics,
           subsetClusterName(req.clusterMode, Rule.Subsets[1].Name, req.service, req.port)) > 0

\* The policy the rule of the last compile sets, else the default one of a
\* cluster of type t.
RulePolicyOr(t) ==
    IF Rule.TrafficPolicy # Nil THEN Rule.TrafficPolicy ELSE defaultTrafficPolicy(t)

\* The policy fields cluster c resolved to are those of policy p.
Carries(c, p) ==
    /\ c.TrafficPolicy = p
    /\ c.ConnectTimeout = p.ConnectTimeout
    /\ c.LbPolicy = (IF p.LoadBalancer = "PASSTHROUGH" THEN "CLUSTER_PROVIDED"
                     ELSE p.LoadBalancer)

\* C13: the default cluster carries the policy of the destination rule, or the
\* default policy of its discovery type when the rule sets none; a subset
\* cluster carries the policy of its subset when the subset has one, and
\* otherwise what the rule sets, as the default cluster does, or the default
\* policy of its discovery type.
C13_PolicyResolution ==
    built # <<>> =>
        /\ Carries(built[1], RulePolicyOr(req.discoveryType))
        /\ \A i \in 1..Len(Kept) :
            IF Kept[i].TrafficPolicy # Nil
            THEN Carries(built[i + 1], Kept[i].TrafficPolicy)
            ELSE /\ Carries(built[i + 1], RulePolicyOr(DefaultType))
                 /\ Rule.TrafficPolicy # Nil =>
                        built[i + 1].TrafficPolicy = built[1].TrafficPolicy

\* A rule with a policy, a subset with its own policy and one without were
\* compiled: three clusters, the overriding subset's with its own policy.
C13_Witness ==
    /\ Len(built) = 3
    /\ Rule.TrafficPolicy # Nil
    /\ \E i \in 1..2 : /\ Kept[i].TrafficPolicy # Nil
                       /\ built[i + 1].TrafficPolicy = Kept[i].TrafficPolicy
                       /\ built[i + 1].TrafficPolicy # built[1].TrafficPolicy
    /\ \E i \in 1..2 : /\ Kept[i].TrafficPolicy = Nil
                       /\ built[i + 1].TrafficPolicy = Rule.TrafficPolicy

\* The places among the subset clusters of the last compile of the cluster
\* named after subset s.
PlacesOf(s) ==
    {i \in 2..Len(built) :
        built[i].Name = subsetClusterName(req.clusterMode, s.Name, req.service, req.port)}

\* The cluster is wired to ADS for its endpoints, under its own name.
Delegated(c) == c.EdsClusterConfig = [ServiceName |-> c.Name, EdsConfig |-> "Ads"]

\* The endpoints the cluster carries inline.
InlineEndpoints(c) == IF c.LoadAssignment = Nil THEN <<>> ELSE c.LoadAssignment.Endpoints

\* C14 as stated: every subset with labels has its cluster, with exactly the
\* matching instances as endpoints unless the default cluster is an EDS one,
\* and then without endpoints and delegated.
C14_Original ==
    built # <<>> =>
        \A k \in 1..Len(Rule.Subsets) :
            LET s == Rule.Subsets[k] IN
            s.Labels # {} =>
                \E i \in PlacesOf(s) :
                    IF DefaultType # "EDS"
                    THEN InlineEndpoints(built[i]) = Matching(s)
                    ELSE /\ built[i].LoadAssignment = Nil
                         /\ Delegated(built[i])

\* C14: a subset with labels has no cluster when the default cluster is a
\* STATIC or STRICT_DNS one and no instance carries its labels, and otherwise
\* exactly one, named after it; that cluster holds exactly the matching
\* instances as endpoints when the default cluster is STATIC or STRICT_DNS and
\* no inline endpoints for any other type, and when it is itself an EDS
\* cluster it is delegated under its own name.
C14_SubsetClusters ==
    built # <<>> =>
        \A k \in 1..Len(Rule.Subsets) :
            LET s == Rule.Subsets[k] IN
            s.Labels # {} =>
                IF DefaultType \in InlineTypes /\ Matching(s) = <<>>
                THEN PlacesOf(s) = {}
                ELSE /\ Cardinality(PlacesOf(s)) = 1
                     /\ \A i \in PlacesOf(s) :
                         /\ built[i].LoadAssignment =
                                (IF DefaultType \in InlineTypes
                                 THEN [ClusterName |-> built[i].Name, Endpoints |-> Matching(s)]
                                 ELSE Nil)
                         /\ GetType(built[i]) = "EDS" => Delegated(built[i])

\* A STATIC service with an instance of each version, a subset per version:
\* each subset cluster holds the one instance of its version.
C14_Witness ==
    /\ Len(built) = 3
    /\ DefaultType = "STATIC"
    /\ Len(req.instances) = 2
    /\ \A i \in 2..3 : Len(built[i].LoadAssignment.Endpoints) = 1
    /\ built[2].LoadAssignment.Endpoints # built[3].LoadAssignment.Endpoints

\* C15: a cluster the compile returns with discovery type EDS has no load
\* assignment and is wired to ADS with its own name as the EDS service name.
C15_EdsDelegation ==
    \A i \in 1..Len(built) :
        GetType(built[i]) = "EDS" =>
            /\ built[i].LoadAssignment = Nil
            /\ Delegated(built[i])

\* An EDS service with instances and two subsets: three EDS clusters.
C15_Witness ==
    /\ Len(built) = 3
    /\ req.instances # <<>>
    /\ \A i \in 1..3 : GetType(built[i]) = "EDS"

\* The names of a list of clusters, in order.
Names(clusters) == [i \in 1..Len(clusters) |-> clusters[i].Name]

\* The policy fields of a list of clusters, in order.
Policies(clusters) ==
    [i \in 1..Len(clusters) |->
        <<clusters[i].TrafficPolicy, clusters[i].ConnectTimeout, clusters[i].LbPolicy>>]

\* The subset each cluster of the last compile is built for.
SubsetNameOf(i) == IF i = 1 THEN "" ELSE built[i].Metadata.subset

\* C16 as stated: the clusters of a request are the same on any push context,
\* and their names do not depend on the cluster mode.
C16_Original ==
    req # NoCompile =>
        /\ Names(built) = Names(CompiledAfresh(req))
        /\ Policies(built) = Policies(CompiledAfresh(req))
        /\ \A m \in ClusterModes :
               Names(CompiledAfresh([req EXCEPT !.clusterMode = m])) = Names(built)

\* C16: the clusters a request compiles to on a push context earlier compiles
\* have used have the names and policy fields of those it compiles to on a new
\* one, in the same order; the name of each is the key the cluster mode forms
\* of direction, subset name (none for the default cluster), host and port.
C16_Deterministic ==
    req # NoCompile =>
        /\ Names(built) = Names(CompiledAfresh(req))
        /\ Policies(built) = Policies(CompiledAfresh(req))
        /\ \A i \in 1..Len(built) :
               built[i].Name =
                   (IF req.clusterMode = DefaultClusterMode
                    THEN BuildSubsetKey("outbound", SubsetNameOf(i), req.service.Hostname,
                                        req.port.Port)
                    ELSE BuildDNSSrvSubsetKey("outbound", SubsetNameOf(i),
                                              req.service.Hostname, req.port.Port))

\* A compile on a push context that already counts rejections returned the
\* default cluster and a subset cluster.
C16_Witness ==
    /\ Len(built) >= 2
    /\ SumOf(metrics) = MaxMetrics
    /\ Names(built) = Names(CompiledAfresh(req))

\* ---------------------------------------------------- claims of the session
\* The step sends a push: a fresh nonce, the current configuration, the
\* session awaiting its acknowledgment.
SendsOnePush ==
    /\ event'.pushed
    /\ server'.nonces = server.nonces + 1
    /\ session'.state = "AwaitingAck"
    /\ session'.nonce = server'.nonces
    /\ session'.sent = server'.version

\* The step sends nothing.
SendsNothing == ~event'.pushed /\ server'.nonces = server.nonces

\* The step is the session's answer to a request of the client.
Answers == event'.kind = "request" /\ session.state # "Closed"

\* The request answered is an acknowledgment, a negative acknowledgment of
\* the outstanding push, or neither.
IsAck == Answers /\ ~event'.request.ErrorDetail /\ Echoes(session, event'.request)
IsNack == Answers /\ event'.request.ErrorDetail /\ session.nonce # 0
IsProbe == Answers /\ ~event'.request.ErrorDetail /\ ~Echoes(session, event'.request)

\* C17: a push is sent only when no nonce is outstanding or in answer to the
\* acknowledgment of the outstanding one, and under a nonce no push had before.
C17_Original ==
    [][event'.pushed =>
          /\ session.nonce = 0 \/ IsAck
          /\ session'.nonce > server.nonces]_vars

\* C18: an acknowledgment makes the version of the acknowledged push the
\* accepted one; exactly one push, of the current configuration under a fresh
\* nonce, follows it when the configuration has changed since that push was
\* sent, and none when it has not.
C18_Acknowledgment ==
    [][IsAck =>
          /\ session'.accepted = session.sent
          /\ IF server.version # session.sent
             THEN SendsOnePush
             ELSE /\ SendsNothing
                  /\ session'.state = "Accepted" /\ session'.nonce = 0]_vars

\* The first push, of version 1, was acknowledged after two changes of the
\* configuration: one push followed, of version 3.
C18_Witness ==
    /\ event.kind = "request" /\ ~event.request.ErrorDetail /\ event.pushed
    /\ event.request.ResponseNonce = 1
    /\ session.accepted = 1
    /\ session.nonce = 2 /\ session.sent = 3
    /\ server.nonces = 2

\* C19: a negative acknowledgment of the outstanding push leaves the accepted
\* version as it was and sends nothing, and a change of the configuration
\* right after it is pushed under a fresh nonce.
C19_NackStability ==
    [][/\ IsNack =>
            /\ session'.accepted = session.accepted
            /\ SendsNothing
            /\ session'.nonce = 0
       /\ (/\ event.kind = "request" /\ event.request.ErrorDetail
           /\ session.state = "Accepted"
           /\ event'.kind = "change") => SendsOnePush]_vars

\* The first push was rejected, then the configuration changed: the second
\* push is out and no version is accepted.
C19_Witness ==
    /\ event.kind = "change" /\ event.pushed
    /\ session.accepted = 0
    /\ session.nonce = 2 /\ session.sent = 2

\* C20: a request without error detail whose nonce is not the outstanding one
\* is sent nothing when the version it reports is the accepted one, and one
\* push of the current configuration under a fresh nonce otherwise, a session
\* that has accepted no version included.
C20_ReconnectSuppression ==
    [][IsProbe =>
          IF session.accepted # 0 /\ event'.request.VersionInfo = session.accepted
          THEN SendsNothing /\ session' = session
          ELSE SendsOnePush]_vars

\* A request under the time nonce reported the accepted version and was sent
\* nothing.
C20_Witness ==
    /\ event.kind = "request" /\ ~event.request.ErrorDetail /\ ~event.pushed
    /\ event.request.ResponseNonce = TimeNonce
    /\ session.state = "Accepted"
    /\ session.accepted # 0
    /\ event.request.VersionInfo = session.accepted

\* ------------------------------------------------- further claims of the cache
\* A pod Added/Updated with an IP in a phase other than Pending and Running.
Ended(e) == IsUpsert(e) /\ e.Item.PodIP # "" /\ e.Item.Phase \notin {"Pending", "Running"}

\* C21: a pod Added/Updated event with an IP whose phase is neither Pending nor
\* Running removes the record stored under that IP and notifies PodDeleted with
\* it; when no record is stored under the IP it changes and notifies nothing;
\* in either case no record is created and none is changed.
C21_PhaseRemoval ==
    \A e \in PodEvents : Ended(e) =>
        \A r \in Handle(cache, e) :
            LET ip == e.Item.PodIP IN
            /\ ~r.panic
            /\ r.nodeNameToLocality = nodeNameToLocality
            /\ IF ip \in DOMAIN pods
               THEN /\ r.pods = MapDelete(pods, ip)
                    /\ r.notes = <<Note("PodDeleted", pods[ip])>>
               ELSE /\ r.pods = pods
                    /\ r.notes = <<>>
            /\ \A i \in DOMAIN r.pods : i \in DOMAIN pods /\ r.pods[i] = pods[i]

\* Every IP holds a record, and an event shows the pod of one of them, under
\* its IP, in a phase that has ended: its record goes, the others stay.
C21_Witness ==
    /\ DOMAIN pods = IPs
    /\ \E e \in PodEvents :
           /\ Ended(e)
           /\ pods[e.Item.PodIP].FullName = e.Name
           /\ \A r \in Handle(cache, e) :
                  /\ Kinds(r.notes) = <<"PodDeleted">>
                  /\ Cardinality(DOMAIN r.pods) = NumIPs - 1

\* The IPs under which a record with the identity name is stored.
Named(c, name) == {ip \in DOMAIN c.pods : c.pods[ip].FullName = name}

\* C23: every identity name is that of one stored record at most, and a pod
\* Deleted event that carries no pod, resolved by name, leaves no record of
\* that name.
C23_Original ==
    /\ \A name \in PodNames : Cardinality(Named(cache, name)) <= 1
    /\ \A e \in PodEvents : (e.Kind = "Deleted" /\ ~e.HasPod) =>
           \A r \in Handle(cache, e) : Named(After(r), e.Name) = {}

\* The cache holds what the listener call n tells: the very record for
\* PodAdded and PodUpdated, no record under the IP for PodDeleted.
Reflects(n) ==
    IF n.kind \in {"PodAdded", "PodUpdated"}
    THEN n.info.IP \in DOMAIN pods /\ pods[n.info.IP] = n.info
    ELSE n.info.IP \notin DOMAIN pods

\* C24: when Handle is about to call the listener, the cache holds the change
\* of that call and of every call still to come in the same Handle; and when
\* the calls are those of a change of a node's locality, every pod bound to
\* the node is stored with the new locality.
C24_StoreBeforeNotify ==
    w.pc = "notify" =>
        /\ w.pending # <<>>
        /\ \A i \in 1..Len(w.pending) : Reflects(w.pending[i])
        /\ w.nodeName # "" =>
               /\ \A ip \in DOMAIN pods :
                      pods[ip].NodeName = w.nodeName => pods[ip].Locality = w.locality
               /\ Len(w.pending) <= Cardinality({ip \in DOMAIN pods : pods[ip].NodeName = w.nodeName})

\* A node with a pod under every IP has changed its locality: every record is
\* stored with the new locality and Handle is about to call PodUpdated for the
\* first of them.
C24_Witness ==
    /\ w.pc = "notify"
    /\ w.nodeName # "" /\ w.locality # ""
    /\ Len(w.pending) = NumIPs
    /\ \A ip \in IPs : ip \in DOMAIN pods /\ pods[ip].Locality = w.locality

\* ------------------------------------------- further claims of the builder
\* The clusters the last operation of the builder returned.
Produced == built \o made

\* C22: every STATIC or STRICT_DNS cluster an operation of the builder returns
\* carries at least one endpoint inline.
C22_Original ==
    \A i \in 1..Len(Produced) :
        GetType(Produced[i]) \in InlineTypes => InlineEndpoints(Produced[i]) # <<>>

\* Request q with the traffic policy of every subset of its rule taken away.
WithoutSubsetPolicies(q) ==
    IF q.destRule = Nil THEN q
    ELSE [q EXCEPT !.destRule.Spec.Subsets =
             [k \in 1..Len(@) |-> [@[k] EXCEPT !.TrafficPolicy = Nil]]]

\* C25: the policy of a subset is carried by the cluster of that subset and
\* by no other: the default cluster and the cluster of every subset without a
\* policy of its own, whether built before or after the subset with one, are
\* those the same compile returns when no subset has a policy, and carry what
\* the rule sets.
C25_SubsetIsolation ==
    built # <<>> =>
        LET plain == CompiledAfresh(WithoutSubsetPolicies(req)) IN
        /\ Len(plain) = Len(built)
        /\ built[1] = plain[1]
        /\ Carries(built[1], RulePolicyOr(req.discoveryType))
        /\ \A i \in 1..Len(Kept) :
            IF Kept[i].TrafficPolicy # Nil
            THEN Carries(built[i + 1], Kept[i].TrafficPolicy)
            ELSE /\ built[i + 1] = plain[i + 1]
                 /\ Carries(built[i + 1], RulePolicyOr(DefaultType))

\* The first subset of the rule has a policy of its own, the second has none:
\* the cluster of the second, built after it, carries the policy of the rule.
C25_Witness ==
    /\ Len(built) = 3
    /\ Rule.TrafficPolicy # Nil
    /\ Kept[1].TrafficPolicy # Nil /\ Kept[2].TrafficPolicy = Nil
    /\ built[2].TrafficPolicy = Kept[1].TrafficPolicy
    /\ built[3].TrafficPolicy = Rule.TrafficPolicy
    /\ built[3].TrafficPolicy # built[2].TrafficPolicy

\* The cluster has a discovery type and it is EDS.
IsEds(c) == c.ClusterDiscoveryType.kind = "Type" /\ c.ClusterDiscoveryType.Type = "EDS"

\* C26: maybeApplyEdsConfig wires an EDS cluster to ADS under its own name and
\* leaves a cluster of any other discovery type, of a custom cluster type or
\* of no discovery type as it was.
C26_Original ==
    applied # NoApply =>
        IF IsEds(applied.cluster)
        THEN applied.result = [applied.cluster EXCEPT !.EdsClusterConfig =
                                  [ServiceName |-> applied.cluster.Name, EdsConfig |-> "Ads"]]
        ELSE applied.result = applied.cluster

====
